---- MODULE Spec2Model ----
(***************************************************************************)
(* Model of the AI-orchestration pipeline of the Cybersecurity Assessment  *)
(* Tool: api/services/ai_generation_service.py.                            *)
(*                                                                         *)
(*   ClientSpec  the Generation Client functions _generate_report_content  *)
(*               and _add_risks called directly, against a scripted        *)
(*               generation capability, for every max_retries in           *)
(*               0..MaxRetriesBound.                                       *)
(*   Spec        pipeline invocations (ai_generation_service) running      *)
(*               concurrently against one database.                       *)
(*   CompilerSpec   json_to_str and create_example of backend/api/         *)
(*               ai_service.py, over every small list of files.            *)
(*   StoreSpec   the operations on Reports and Risks: the REST viewsets,   *)
(*               report_service, the seeding command and a pipeline        *)
(*               invocation.                                               *)
(*   RoundTripSpec  a report payload stored by the pipeline and read back  *)
(*               through report_service.get_report_file_content.           *)
(*   BackendSpec generate_report_content of backend/api/ai_service.py.     *)
(*   FairSpec    one pipeline invocation under weak fairness of its steps. *)
(*   ViewSpec    the requests of ReportViewSet and the lookups of          *)
(*               report_service over a store the pipeline has filled.      *)
(*   CommandSpec the management command add_dummy_vulnerabilities.         *)
(*                                                                         *)
(* The generation capability (MODEL_NAME.generate_content), the asset      *)
(* files and the persistence layer are external collaborators: each call   *)
(* to one of them is a choice over the outcomes it can have (a text, an    *)
(* empty text, an exception; a row, DoesNotExist, a database error).       *)
(* Everything the module itself decides is translated from its code.      *)
(***************************************************************************)
EXTENDS Naturals, Sequences, FiniteSets, TLC

VARIABLES
    gc,       \* ClientSpec: the activation of the client function under test
    script,   \* ClientSpec: what the generation capability answers, call by call
    inv,      \* Spec: inv[i] is the activation of ai_generation_service in task i
    db,       \* Spec, StoreSpec: the committed rows of the database, as any reader sees them
    cc,       \* CompilerSpec: the files and the activation of json_to_str / create_example
    web,      \* StoreSpec, ViewSpec: the requests and commands served so far
    rt,       \* RoundTripSpec: a report payload on its way through the store and back
    vc        \* CommandSpec: the add_dummy_vulnerabilities command and the rows it keeps

vars == <<gc, script, inv, db, cc, web, rt, vc>>

\* The variables of the specifications added to the pipeline's.
aux == <<cc, web, rt, vc>>

(***************************************************************************)
(* Bounds of the model.                                                    *)
(***************************************************************************)
MaxRetriesBound == 4
MaxRisks == 2

(***************************************************************************)
(* Program constants.                                                      *)
(***************************************************************************)
DefaultMaxRetries == 4

\* The activations of the other specifications before they start.
IdleCompiler == [pc |-> "idle"]
IdleWeb == [n |-> 0, last |-> "none", user |-> "none", rows |-> {}]
IdleRoundTrip == [pc |-> "idle"]
IdleCommand == [pc |-> "idle"]

(***************************************************************************)
(* Texts and JSON documents.  A response text is either empty, a non-empty *)
(* text that is no JSON, or the serialization of a JSON document.  A       *)
(* document is an array or an object; of an object the model keeps whether *)
(* it has the top-level keys "report" and "vulnerabilities" and the list   *)
(* stored under "vulnerabilities".                                         *)
(***************************************************************************)
RiskNames == {"Open RDP Port", "Missing DMARC"}

\* The risk objects a response may list: severity is a category or a 1-10 score
\* (the risk prompt asks for a score, the response schema for a category).
RiskItems ==
    {[risk_name |-> "Open RDP Port", severity |-> "High"],
     [risk_name |-> "Missing DMARC", severity |-> "9"]}

RiskLists == UNION {[1..n -> RiskItems] : n \in 0..MaxRisks}

NoDoc ==
    [type |-> "none", has_report |-> FALSE, has_vulnerabilities |-> FALSE,
     vulnerabilities |-> <<>>]

ArrayDoc ==
    [type |-> "array", has_report |-> FALSE, has_vulnerabilities |-> FALSE,
     vulnerabilities |-> <<>>]

OtherObjectDoc ==
    [type |-> "object", has_report |-> FALSE, has_vulnerabilities |-> FALSE,
     vulnerabilities |-> <<>>]

ReportDoc ==
    [type |-> "object", has_report |-> TRUE, has_vulnerabilities |-> FALSE,
     vulnerabilities |-> <<>>]

RisksDoc(l) ==
    [type |-> "object", has_report |-> FALSE, has_vulnerabilities |-> TRUE,
     vulnerabilities |-> l]

NoneText == [raw |-> "None", doc |-> NoDoc]
EmptyText == [raw |-> "", doc |-> NoDoc]
GarbageText == [raw |-> "not json", doc |-> NoDoc]
JsonText(d) == [raw |-> "json", doc |-> d]

\* json.loads: a document for a serialization, JSONDecodeError for anything else.
json_loads(t) ==
    IF t.raw = "json"
    THEN [ok |-> TRUE, value |-> t.doc]
    ELSE [ok |-> FALSE, value |-> NoDoc]

\* Python truthiness of a str-or-None value: None and "" are falsy.
Truthy(t) == t.raw \notin {"None", ""}

\* One call of the generation capability: it raises, or it returns a text.
Raises == [raises |-> TRUE, text |-> NoneText]
Returns(t) == [raises |-> FALSE, text |-> t]

\* The responses that fail the client's checks, and those that pass them.
FailingOutcomes == {Raises, Returns(EmptyText), Returns(GarbageText)}

ReportOutcomes ==
    FailingOutcomes \cup
        {Returns(JsonText(d)) : d \in {ReportDoc, ArrayDoc}}

RiskOutcomes ==
    FailingOutcomes \cup
        {Returns(JsonText(d)) :
            d \in {ArrayDoc, OtherObjectDoc} \cup {RisksDoc(l) : l \in RiskLists}}

\* The top-level key the response schema of each stage requires.
HasRequiredKey(fn, d) ==
    /\ d.type = "object"
    /\ IF fn = "report" THEN d.has_report ELSE d.has_vulnerabilities

(***************************************************************************)
(* The Generation Client: _generate_report_content and _add_risks.  The    *)
(* two functions have the same body up to the asset they read, the prompt  *)
(* and the response schema they hand to the capability.                    *)
(***************************************************************************)
IdleClient ==
    [fn |-> "none", max_retries |-> 0, retry_count |-> 0, calls |-> 0,
     sleeps |-> 0, status |-> "idle", ret |-> NoneText, exc |-> "none"]

\* NewClient with one attempt counter for both stages: the risk stage goes on
\* from the attempt the report stage succeeded with.
NewClientSharedCounter(fn, max_retries) ==
    [fn |-> fn, max_retries |-> max_retries,
     retry_count |-> IF fn = "risks" THEN 1 ELSE 0, calls |-> 0,
     sleeps |-> 0, status |-> "open", ret |-> NoneText, exc |-> "none"]

\* retry_count = 0 on entry; the asset file is not opened yet.
NewClient(fn, max_retries) ==
    [fn |-> fn, max_retries |-> max_retries, retry_count |-> 0, calls |-> 0,
     sleeps |-> 0, status |-> "open", ret |-> NoneText, exc |-> "none"]

\* `from datetime import time`: the name time is the class datetime.time, which
\* has no attribute sleep, so time.sleep(delay) raises AttributeError.
time_sleep == "AttributeError"

\* with open(<asset>) as file: the example is built, or open() raises.
OpenAsset(c, readable) ==
    IF readable
    THEN [c EXCEPT !.status = "loop"]
    ELSE [c EXCEPT !.status = "raised", !.exc = "FileNotFoundError"]

\* except Exception: retry_count += 1; time.sleep(delay); continue.  An
\* exception raised here, inside the handler, leaves the function.
ExceptHandler(c) ==
    LET c1 == [c EXCEPT !.retry_count = @ + 1, !.sleeps = @ + 1]
    IN  IF time_sleep = "ok"
        THEN c1
        ELSE [c1 EXCEPT !.status = "raised", !.exc = time_sleep]

\* The empty-text branch and the JSONDecodeError branch: retry_count += 1;
\* time.sleep(delay); continue.  Both lie inside the outer try, so an exception
\* of time.sleep is caught by `except Exception`.
RetryBranch(c) ==
    LET c1 == [c EXCEPT !.retry_count = @ + 1, !.sleeps = @ + 1]
    IN  IF time_sleep = "ok" THEN c1 ELSE ExceptHandler(c1)

\* Attempt without the json.loads check: any non-empty text is returned.
AttemptUnchecked(c, o) ==
    LET c0 == [c EXCEPT !.calls = @ + 1]
    IN  IF o.raises THEN ExceptHandler(c0)
        ELSE IF ~Truthy(o.text) THEN RetryBranch(c0)
        ELSE [c0 EXCEPT !.status = "returned", !.ret = o.text]

\* One iteration of `while retry_count < max_retries`, the capability answering o.
Attempt(c, o) ==
    LET c0 == [c EXCEPT !.calls = @ + 1]
    IN  IF o.raises THEN ExceptHandler(c0)
        ELSE IF ~Truthy(o.text) THEN RetryBranch(c0)
        ELSE IF json_loads(o.text).ok
             THEN [c0 EXCEPT !.status = "returned", !.ret = o.text]
        ELSE RetryBranch(c0)

\* The loop condition fails: return None.
Exhausted(c) == [c EXCEPT !.status = "returned", !.ret = NoneText]

\* The client's next step after the asset is read.
ClientStep(c, o) ==
    IF c.retry_count < c.max_retries THEN Attempt(c, o) ELSE Exhausted(c)

ClientDone(c) == c.status \in {"returned", "raised"}

(***************************************************************************)
(* The database.  Readers see the committed rows only; the rows written    *)
(* inside transaction.atomic() are held in the writer's tx until the block *)
(* exits: on a normal exit they are committed together, on an exception    *)
(* they are discarded together.                                            *)
(***************************************************************************)
Tasks == {1, 2}

OrganizationIds == {"org1", "org2"}
UserIds == {"user1", "user2"}

\* User.organization, a nullable foreign key.
UserOrganization(u) ==
    CASE u = "user1" -> "org1"
      [] u = "seed_user" -> "seed_org"
      [] OTHER -> "null"

InitialDb ==
    [organizations |-> OrganizationIds, users |-> UserIds,
     reports |-> {}, risks |-> {}]

NoTx == [open |-> FALSE, reports |-> {}, risks |-> {}]

\* NewReport without completed=...: the field keeps its default, null.
NewReportUncompleted(i, user, org, report_data) ==
    [report_id |-> i, user_created |-> user, organization |-> org,
     report_text |-> report_data, completed |-> "null"]

\* Report.objects.create(user_created=user, organization=org, report_name=...,
\* report_text=report_data, completed=timezone.now()) in task i.
NewReport(i, user, org, report_data) ==
    [report_id |-> i, user_created |-> user, organization |-> org,
     report_text |-> report_data, completed |-> "now"]

\* Risk.objects.create(risk_name=..., report=new_report, organization=org, ...)
\* for the k-th entry of the list; is_archived takes its default.
NewRisk(i, k, risk_item, org) ==
    [risk_id |-> <<i, k>>, risk_name |-> risk_item.risk_name, report |-> i,
     organization |-> org, severity |-> risk_item.severity,
     is_archived |-> FALSE]

\* CreateReportRow outside any transaction: the row is visible at once.
CreateReportRowAutocommit(d, tx, row) ==
    [db |-> [d EXCEPT !.reports = @ \cup {row}], tx |-> [tx EXCEPT !.open = TRUE]]

\* A create inside `with transaction.atomic()`: the row is written in the open
\* transaction and no other connection sees it.  The result is the committed
\* rows and the transaction after the write.
CreateReportRow(d, tx, row) ==
    [db |-> d, tx |-> [tx EXCEPT !.open = TRUE, !.reports = @ \cup {row}]]

\* CreateRiskRow that keeps only the row written last.
CreateRiskRowOverwriting(d, tx, row) ==
    [db |-> d, tx |-> [tx EXCEPT !.risks = {row}]]

\* Risk.objects.create inside the block: one more row in the transaction.
CreateRiskRow(d, tx, row) ==
    [db |-> d, tx |-> [tx EXCEPT !.risks = @ \cup {row}]]

\* COMMIT: every row of the transaction becomes visible at once.
Commit(d, tx) ==
    [d EXCEPT !.reports = @ \cup tx.reports, !.risks = @ \cup tx.risks]

\* AtomicExit that keeps what was written when an exception leaves the block.
AtomicExitNoRollback(d, tx, exception) ==
    [d EXCEPT !.reports = @ \cup tx.reports, !.risks = @ \cup tx.risks]

\* The foreign keys of Report and Risk, checked by the database when a
\* transaction commits: each names an existing row.
ForeignKeysHold(d) ==
    /\ \A r \in d.reports :
          r.user_created \in d.users /\ r.organization \in d.organizations
    /\ \A k \in d.risks :
          /\ k.organization \in d.organizations
          /\ \E r \in d.reports : r.report_id = k.report

\* Leaving `with transaction.atomic()`: commit on a normal exit (the return
\* True of line 416 included), roll back when an exception leaves the block.
AtomicExit(d, tx, exception) == IF exception THEN d ELSE Commit(d, tx)

(***************************************************************************)
(* ai_generation_service(personal_info, current_risks, context,            *)
(* system_instruction), one activation per task.                           *)
(***************************************************************************)
\* personal_info: its organization_id, or "nokey" when the key is absent.
PersonalInfos == {"org1", "org2", "org9", "nokey"}

\* current_risks: the risk names of the organization's known risks.
CurrentRisks == {{}, {"Open RDP Port"}}

IdleInvocation ==
    [pc |-> "idle", personal_info |-> "nokey", current_risks |-> {},
     report_client |-> IdleClient, risk_client |-> IdleClient,
     org |-> "none", user |-> "none", vulnerabilities |-> <<>>, k |-> 0,
     tx |-> NoTx, result |-> "none", log |-> "none", failure |-> "none",
     org_lookups |-> 0, user_lookups |-> 0, writes |-> 0]

\* ReturnFalse with one catch-all except clause: the same line for every failure.
ReturnFalseOneMessage(a, log, failure) ==
    [a EXCEPT !.pc = "done", !.result = "False", !.log = "Database save failed",
              !.failure = failure, !.tx = NoTx, !.user = "none",
              !.vulnerabilities = <<>>]

\* return False after the except clause that printed `log`; an exception that
\* leaves the atomic block rolls the block back, and the locals are gone.
ReturnFalse(a, log, failure) ==
    [a EXCEPT !.pc = "done", !.result = "False", !.log = log,
              !.failure = failure, !.tx = NoTx, !.user = "none",
              !.vulnerabilities = <<>>]

\* except Exception as e: print("[ERROR] Database save failed: ...").
DatabaseSaveFailed(a, failure) == ReturnFalse(a, "Database save failed", failure)

\* The call of line 371 stands outside the try: what _generate_report_content
\* raises leaves ai_generation_service.  A falsy result returns False.
AfterReportStage(a) ==
    LET c == a.report_client
    IN  IF c.status = "raised"
        THEN [a EXCEPT !.pc = "done", !.result = "raised", !.log = c.exc,
                       !.failure = "report_stage"]
        ELSE IF c.status = "returned"
        THEN IF Truthy(c.ret)
             THEN [a EXCEPT !.pc = "lookup_org"]
             ELSE ReturnFalse(a, "Report generation failed", "report_stage")
        ELSE a

\* AfterRiskStage that reads the organization's committed risks again and
\* drops from the list those it finds.
AfterRiskStageRevalidated(a) ==
    LET c == a.risk_client
        risks_data == json_loads(c.ret).value
        known == a.current_risks \cup
                    {r.risk_name : r \in {q \in db.risks : q.organization = a.org}}
        IsNew(item) == item.risk_name \notin known
    IN  IF c.status = "raised" THEN DatabaseSaveFailed(a, "risk_stage")
        ELSE IF c.status = "returned"
        THEN IF ~Truthy(c.ret)
             THEN [a EXCEPT !.pc = "insert", !.vulnerabilities = <<>>, !.k = 1]
             ELSE IF risks_data.type # "object"
             THEN DatabaseSaveFailed(a, "risks_shape")
             ELSE [a EXCEPT !.pc = "insert", !.k = 1, !.current_risks = known,
                            !.vulnerabilities =
                                SelectSeq(risks_data.vulnerabilities, IsNew)]
        ELSE a

\* Lines 397-403 once _add_risks has ended: an exception passes through the
\* atomic block to `except Exception`; a truthy text is parsed and the list
\* under "vulnerabilities" (default []) is iterated; a falsy result skips
\* the risks.  risks_data.get raises AttributeError when risks_data is a list.
AfterRiskStage(a) ==
    LET c == a.risk_client
        risks_data == json_loads(c.ret).value
    IN  IF c.status = "raised" THEN DatabaseSaveFailed(a, "risk_stage")
        ELSE IF c.status = "returned"
        THEN IF ~Truthy(c.ret)
             THEN [a EXCEPT !.pc = "insert", !.vulnerabilities = <<>>, !.k = 1]
             ELSE IF risks_data.type # "object"
             THEN DatabaseSaveFailed(a, "risks_shape")
             ELSE [a EXCEPT !.pc = "insert", !.k = 1,
                            !.vulnerabilities = risks_data.vulnerabilities]
        ELSE a

\* Set with retry_count of the report stage kept in one module-level variable
\* that every invocation reads and writes.
SetSharedCounter(i, a) ==
    inv' = [j \in Tasks |->
              IF j = i THEN a
              ELSE [inv[j] EXCEPT !.report_client.retry_count =
                                      a.report_client.retry_count]]

\* The step of task i ends with the activation a: everything the functions
\* keep is local to the call, so no other activation changes.
Set(i, a) == inv' = [inv EXCEPT ![i] = a]

\* The call of ai_generation_service; _generate_report_content starts.
Invoke(i) ==
    /\ inv[i].pc = "idle"
    /\ \E p \in PersonalInfos, r \in CurrentRisks :
          Set(i, [inv[i] EXCEPT !.pc = "report_stage", !.personal_info = p,
                                !.current_risks = r,
                                !.report_client =
                                    NewClient("report", DefaultMaxRetries)])
    /\ UNCHANGED <<aux, gc, script, db>>

\* _generate_report_content reads test_report.tex.
ReportOpen(i) ==
    /\ inv[i].pc = "report_stage"
    /\ inv[i].report_client.status = "open"
    /\ \E readable \in BOOLEAN :
          Set(i, AfterReportStage(
                    [inv[i] EXCEPT !.report_client = OpenAsset(@, readable)]))
    /\ UNCHANGED <<aux, gc, script, db>>

\* One pass of the retry loop of _generate_report_content.
ReportAttempt(i) ==
    /\ inv[i].pc = "report_stage"
    /\ inv[i].report_client.status = "loop"
    /\ \E o \in ReportOutcomes :
          Set(i, AfterReportStage(
                    [inv[i] EXCEPT !.report_client = ClientStep(@, o)]))
    /\ UNCHANGED <<aux, gc, script, db>>

\* LookupOrganization that prints the not-found line and goes on.
LookupOrganizationNoAbort(i) ==
    /\ inv[i].pc = "lookup_org"
    /\ LET a == inv[i]
           b == [a EXCEPT !.org_lookups = @ + 1]
       IN  IF a.personal_info = "nokey"
           THEN Set(i, DatabaseSaveFailed(a, "KeyError"))
           ELSE IF a.personal_info \in db.organizations
           THEN Set(i, [b EXCEPT !.pc = "lookup_user", !.org = a.personal_info])
           ELSE Set(i, [b EXCEPT !.pc = "lookup_user",
                                 !.log = "Organization not found",
                                 !.failure = "Organization.DoesNotExist"])
    /\ UNCHANGED <<aux, gc, script, db>>

\* report_data = json.loads(report_json_str);
\* org = Organization.objects.get(organization_id=personal_info['organization_id']).
LookupOrganization(i) ==
    /\ inv[i].pc = "lookup_org"
    /\ LET a == inv[i]
           b == [a EXCEPT !.org_lookups = @ + 1]
       IN  IF a.personal_info = "nokey"
           THEN Set(i, DatabaseSaveFailed(a, "KeyError"))
           ELSE IF a.personal_info \in db.organizations
           THEN Set(i, [b EXCEPT !.pc = "lookup_user", !.org = a.personal_info])
           ELSE Set(i, ReturnFalse(b, "Organization not found",
                                   "Organization.DoesNotExist"))
    /\ UNCHANGED <<aux, gc, script, db>>

\* user = User.objects.get(user_id=User.user_id): the key is the attribute of
\* the class User, not a value of the call, so which row it names, if any, is
\* the persistence layer's answer: a row, DoesNotExist or another error.
LookupUser(i) ==
    /\ inv[i].pc = "lookup_user"
    /\ LET a == [inv[i] EXCEPT !.user_lookups = @ + 1]
       IN  \/ \E u \in db.users :
                 Set(i, [a EXCEPT !.pc = "create_report", !.user = u])
           \/ Set(i, ReturnFalse(a, "User not found", "User.DoesNotExist"))
           \/ Set(i, DatabaseSaveFailed(a, "user_lookup_error"))
    /\ UNCHANGED <<aux, gc, script, db>>

\* with transaction.atomic(): new_report = Report.objects.create(...); then
\* _add_risks starts, inside the block.  A create that raises leaves the block.
CreateReport(i) ==
    /\ inv[i].pc = "create_report"
    /\ LET a == inv[i]
           report_data == json_loads(a.report_client.ret).value
           w == CreateReportRow(db, a.tx, NewReport(i, a.user, a.org, report_data))
       IN  \/ /\ Set(i, [a EXCEPT
                          !.pc = "risk_stage", !.tx = w.tx, !.writes = @ + 1,
                          !.risk_client = NewClient("risks", DefaultMaxRetries)])
              /\ db' = w.db
           \/ /\ Set(i, DatabaseSaveFailed(a, "report_create"))
              /\ db' = AtomicExit(db, a.tx, TRUE)
    /\ UNCHANGED <<aux, gc, script>>

\* A step of _add_risks inside the atomic block, taking the activation to b:
\* when it ended the invocation, an exception has left the block.
RiskStageStep(i, b) ==
    /\ Set(i, b)
    /\ db' = IF b.pc = "done" THEN AtomicExit(db, inv[i].tx, TRUE) ELSE db

\* _add_risks reads the risk template.
RiskOpen(i) ==
    /\ inv[i].pc = "risk_stage"
    /\ inv[i].risk_client.status = "open"
    /\ \E readable \in BOOLEAN :
          RiskStageStep(i, AfterRiskStage(
                    [inv[i] EXCEPT !.risk_client = OpenAsset(@, readable)]))
    /\ UNCHANGED <<aux, gc, script>>

\* One pass of the retry loop of _add_risks.
RiskAttempt(i) ==
    /\ inv[i].pc = "risk_stage"
    /\ inv[i].risk_client.status = "loop"
    /\ \E o \in RiskOutcomes :
          RiskStageStep(i, AfterRiskStage(
                    [inv[i] EXCEPT !.risk_client = ClientStep(@, o)]))
    /\ UNCHANGED <<aux, gc, script>>

\* One pass of `for risk_item in ...`: Risk.objects.create(...) stores the row
\* in the open transaction, or raises and leaves the block.
InsertRisk(i) ==
    /\ inv[i].pc = "insert"
    /\ inv[i].k <= Len(inv[i].vulnerabilities)
    /\ LET a == inv[i]
           w == CreateRiskRow(db, a.tx,
                              NewRisk(i, a.k, a.vulnerabilities[a.k], a.org))
       IN  \/ /\ Set(i, [a EXCEPT !.tx = w.tx, !.k = @ + 1, !.writes = @ + 1])
              /\ db' = w.db
           \/ /\ Set(i, DatabaseSaveFailed(a, "risk_insert"))
              /\ db' = AtomicExit(db, a.tx, TRUE)
    /\ UNCHANGED <<aux, gc, script>>

\* The loop is over: print the success line, return True; the atomic block
\* exits normally and commits.  When a row the block wrote names an
\* Organization or a User deleted in the meantime, the commit raises
\* IntegrityError, the block is rolled back and `except Exception` returns
\* False.
ReturnTrue(i) ==
    /\ inv[i].pc = "insert"
    /\ inv[i].k > Len(inv[i].vulnerabilities)
    /\ IF ForeignKeysHold(AtomicExit(db, inv[i].tx, FALSE))
       THEN /\ db' = AtomicExit(db, inv[i].tx, FALSE)
            /\ Set(i, [inv[i] EXCEPT !.pc = "done", !.result = "True",
                                     !.log = "Successfully saved", !.tx = NoTx])
       ELSE /\ db' = AtomicExit(db, inv[i].tx, TRUE)
            /\ Set(i, DatabaseSaveFailed(inv[i], "commit"))
    /\ UNCHANGED <<aux, gc, script>>

Init ==
    /\ gc = IdleClient
    /\ script = <<>>
    /\ inv = [i \in Tasks |-> IdleInvocation]
    /\ db = InitialDb
    /\ cc = IdleCompiler
    /\ web = IdleWeb
    /\ vc = IdleCommand
    /\ rt = IdleRoundTrip

Next ==
    \E i \in Tasks :
        \/ Invoke(i)
        \/ ReportOpen(i)
        \/ ReportAttempt(i)
        \/ LookupOrganization(i)
        \/ LookupUser(i)
        \/ CreateReport(i)
        \/ RiskOpen(i)
        \/ RiskAttempt(i)
        \/ InsertRisk(i)
        \/ ReturnTrue(i)

Spec == Init /\ [][Next]_vars

(***************************************************************************)
(* ClientSpec: one client function called directly.  script[k] is what the *)
(* generation capability does on its k-th call.                            *)
(***************************************************************************)
ScriptOutcomes(fn) ==
    FailingOutcomes \cup
        {Returns(JsonText(ArrayDoc)),
         Returns(JsonText(IF fn = "report" THEN ReportDoc ELSE RisksDoc(<<>>)))}

ClientInit ==
    /\ \E fn \in {"report", "risks"}, m \in 0..MaxRetriesBound :
          /\ gc = NewClient(fn, m)
          /\ script \in [1..MaxRetriesBound -> ScriptOutcomes(fn)]
    /\ inv = [i \in Tasks |-> IdleInvocation]
    /\ db = InitialDb
    /\ cc = IdleCompiler
    /\ web = IdleWeb
    /\ vc = IdleCommand
    /\ rt = IdleRoundTrip

ClientOpen ==
    /\ gc.status = "open"
    /\ \E readable \in BOOLEAN : gc' = OpenAsset(gc, readable)
    /\ UNCHANGED <<aux, script, inv, db>>

ClientLoop ==
    /\ gc.status = "loop"
    /\ gc' = ClientStep(gc, IF gc.calls < Len(script)
                            THEN script[gc.calls + 1] ELSE Raises)
    /\ UNCHANGED <<aux, script, inv, db>>

ClientNext == ClientOpen \/ ClientLoop

ClientSpec == ClientInit /\ [][ClientNext]_vars

(***************************************************************************)
(* Properties.                                                             *)
(***************************************************************************)
\* The committed rows that invocation i created.
ReportsOf(i) == {r \in db.reports : r.report_id = i}
RisksOf(i) == {r \in db.risks : r.report = i}

\* The Risk rows invocation i writes when every insertion succeeds.
RowsWritten(i) ==
    {NewRisk(i, k, inv[i].vulnerabilities[k], inv[i].org) :
        k \in 1..Len(inv[i].vulnerabilities)}

\* A stage that made at least one generation call and ended without a text.
GenerationFailed(c) ==
    /\ c.calls >= 1
    /\ \/ c.status = "raised"
       \/ c.status = "returned" /\ ~Truthy(c.ret)

\* The failure kinds of the error taxonomy, by the place that failed.
FailureKind(a) ==
    CASE a.failure = "Organization.DoesNotExist" -> "organization-not-found"
      [] a.failure = "User.DoesNotExist" -> "user-not-found"
      [] a.failure \in {"report_stage", "risk_stage"} -> "generation"
      [] a.failure \in {"report_create", "risk_insert", "commit"} -> "persistence"
      [] OTHER -> "none"

\* What the caller of ai_generation_service observes: the value returned, or
\* the exception that left the function.
Observable(a) == IF a.result = "raised" THEN a.log ELSE a.result

\* C1: when a Risk insertion raises, the invocation returns False and neither
\* the Report it created (with its completed timestamp) nor any Risk it
\* created is in the database.
C1_FailedInsertRollsBack ==
    \A i \in Tasks :
        inv[i].failure = "risk_insert" =>
            /\ inv[i].pc = "done"
            /\ inv[i].result = "False"
            /\ ReportsOf(i) = {}
            /\ RisksOf(i) = {}

\* An invocation whose second insertion raised after the first was written.
C1_Witness ==
    \E i \in Tasks :
        /\ inv[i].failure = "risk_insert"
        /\ inv[i].k = 2
        /\ inv[i].writes = 2
        /\ inv[i].result = "False"

\* C2: in every state a reader of the database sees, of each invocation,
\* either no row at all or the Report together with every Risk row the
\* invocation wrote; the rows appear only with the invocation's success.
C2_AllOrNothingVisible ==
    \A i \in Tasks :
        \/ ReportsOf(i) = {} /\ RisksOf(i) = {}
        \/ /\ inv[i].result = "True"
           /\ Cardinality(ReportsOf(i)) = 1
           /\ RisksOf(i) = RowsWritten(i)

\* An invocation is inside its transaction, the Report and a Risk written,
\* and a reader sees none of it.
C2_Witness ==
    \E i \in Tasks :
        /\ inv[i].tx.open
        /\ inv[i].tx.reports # {}
        /\ inv[i].tx.risks # {}
        /\ ReportsOf(i) = {} /\ RisksOf(i) = {}

\* C7: when a generation stage of an invocation fails, the invocation returns
\* False and no Report and no Risk of it is persisted.
C7_GenerationFailureReturnsFalse ==
    \A i \in Tasks :
        ( /\ inv[i].pc = "done"
          /\ \/ GenerationFailed(inv[i].report_client)
             \/ GenerationFailed(inv[i].risk_client) )
        => /\ inv[i].result = "False"
           /\ ReportsOf(i) = {}
           /\ RisksOf(i) = {}

\* C8: no persisted Risk has a risk_name that is in the current_risks handed
\* to the invocation that created it.
C8_NoKnownRiskReintroduced ==
    \A r \in db.risks : r.risk_name \notin inv[r.report].current_risks

\* C9: when the Organization lookup or the User lookup does not find its row,
\* the invocation ends with False, it has written no row, it has made no
\* risk-stage generation call, and each lookup was made at most once.
C9_LookupFailureAbortsBeforeWrite ==
    \A i \in Tasks :
        inv[i].failure \in {"Organization.DoesNotExist", "User.DoesNotExist"} =>
            /\ inv[i].pc = "done"
            /\ inv[i].result = "False"
            /\ inv[i].writes = 0
            /\ ReportsOf(i) = {} /\ RisksOf(i) = {}
            /\ inv[i].risk_client = IdleClient
            /\ inv[i].org_lookups = 1
            /\ inv[i].user_lookups =
                  IF inv[i].failure = "User.DoesNotExist" THEN 1 ELSE 0

\* One invocation failed its Organization lookup, another its User lookup.
C9_Witness ==
    \E i, j \in Tasks :
        /\ inv[i].failure = "Organization.DoesNotExist"
        /\ inv[j].failure = "User.DoesNotExist"
        /\ inv[i].pc = "done" /\ inv[j].pc = "done"

\* C10 as claimed: two invocations that failed with different failure kinds
\* surface different outcomes to their callers.
C10_OutcomeDistinguishesKinds ==
    \A i, j \in Tasks :
        ( /\ inv[i].pc = "done" /\ inv[j].pc = "done"
          /\ FailureKind(inv[i]) # "none" /\ FailureKind(inv[j]) # "none"
          /\ FailureKind(inv[i]) # FailureKind(inv[j]) )
        => Observable(inv[i]) # Observable(inv[j])

\* C10 as amended: organization-not-found, user-not-found and persistence
\* failure all return the same value False; they differ in the printed line
\* only ("Organization not found", "User not found", "Database save failed"),
\* and a risk-stage generation failure prints the persistence line.
C10_KindsDifferInPrintedLineOnly ==
    LET Lookup == {"organization-not-found", "user-not-found", "persistence"}
    IN  /\ \A i \in Tasks :
              ( FailureKind(inv[i]) \in Lookup \/ inv[i].failure = "risk_stage" )
              => inv[i].result = "False"
        /\ \A i \in Tasks :
              inv[i].failure = "risk_stage" => inv[i].log = "Database save failed"
        /\ \A i, j \in Tasks :
              ( /\ FailureKind(inv[i]) \in Lookup
                /\ FailureKind(inv[j]) \in Lookup
                /\ FailureKind(inv[i]) # FailureKind(inv[j]) )
              => inv[i].log # inv[j].log

\* One invocation ended organization-not-found, another in a persistence failure.
C10_Witness ==
    \E i, j \in Tasks :
        /\ FailureKind(inv[i]) = "organization-not-found"
        /\ FailureKind(inv[j]) = "persistence"
        /\ inv[i].result = "False" /\ inv[j].result = "False"

(***************************************************************************)
(* Properties of the Generation Client, under ClientSpec.                  *)
(***************************************************************************)
\* An answer of the capability that satisfies the structural contract of fn.
ValidOutcome(fn, o) ==
    /\ ~o.raises
    /\ Truthy(o.text)
    /\ json_loads(o.text).ok
    /\ HasRequiredKey(fn, json_loads(o.text).value)

\* The asset was read, so the retry loop was entered, and the function ended.
ClientEnded == ClientDone(gc) /\ gc.exc # "FileNotFoundError"

\* C3: when answers 1..k-1 fail and answer k <= max_retries is valid, the
\* function returns the text of answer k after exactly k calls.
C3_ReturnsFirstValidAnswer ==
    \A k \in 1..Len(script) :
        ( /\ ClientEnded
          /\ k <= gc.max_retries
          /\ \A j \in 1..(k - 1) : script[j] \in FailingOutcomes
          /\ ValidOutcome(gc.fn, script[k]) )
        => /\ gc.status = "returned"
           /\ gc.ret = script[k].text
           /\ gc.calls = k

\* C4: when every answer fails, the function returns None after exactly
\* max_retries calls.
C4_ExhaustionReturnsNone ==
    ( /\ ClientEnded
      /\ \A j \in 1..Len(script) : script[j] \in FailingOutcomes )
    => /\ gc.status = "returned"
       /\ gc.ret = NoneText
       /\ gc.calls = gc.max_retries

\* C5 as claimed: every text the client returns is a JSON object with the
\* top-level key its stage requires.
C5_ReturnedTextHasRequiredKey ==
    (gc.status = "returned" /\ gc.ret # NoneText) =>
        /\ json_loads(gc.ret).ok
        /\ HasRequiredKey(gc.fn, json_loads(gc.ret).value)

\* C5 as amended: every text the client returns is non-empty and parses as
\* JSON; the top-level keys are not checked.
C5_ReturnedTextParsesAsJson ==
    (gc.status = "returned" /\ gc.ret # NoneText) =>
        /\ Truthy(gc.ret)
        /\ json_loads(gc.ret).ok

\* The client returned a text after a call.
C5_Witness ==
    /\ gc.status = "returned"
    /\ gc.calls = 1
    /\ gc.ret = JsonText(ArrayDoc)

\* C6: the client never raises: whatever the capability does on each attempt,
\* and whatever the pause between attempts does, the function ends by
\* returning a text or None.  (Stated for the runs that got past reading the
\* asset; open() raising FileNotFoundError leaves the function as well.)
C6_ClientNeverRaises == ClientEnded => gc.status = "returned"

(***************************************************************************)
(* Further properties of the pipeline, under Spec.                         *)
(***************************************************************************)
\* C11: no exception crosses the pipeline boundary: every invocation that has
\* ended, whatever its input and whatever its stages, lookups and writes did,
\* has returned True or False.
C11_InvocationReturnsBoolean ==
    \A i \in Tasks :
        inv[i].pc = "done" => inv[i].result \in {"True", "False"}

\* C12: the stages run in the order report generation, risk reconciliation,
\* persistence: an invocation has written no row before its risk-stage call
\* sequence has ended, and no risk-stage call sequence is running while its
\* transaction is open.
C12_PersistenceAfterRiskStage ==
    \A i \in Tasks :
        /\ inv[i].writes > 0 => ClientDone(inv[i].risk_client)
        /\ inv[i].tx.open => inv[i].risk_client.status \notin {"open", "loop"}

\* C19: the organization of every Report is the organization of the User who
\* created it, whenever that User has one.
C19_ReportOrganizationIsCreatorsOrganization ==
    \A r \in db.reports :
        UserOrganization(r.user_created) # "null" =>
            r.organization = UserOrganization(r.user_created)

(***************************************************************************)
(* Concrete JSON.  A text is a sequence of tokens: punctuation, "\n", one  *)
(* " " per space, a numeral, and for a string literal the quote, the       *)
(* characters as one token, the quote.  A value is [t, s, items]: t is     *)
(* "str", "num", "arr" or "obj", s the characters or the numeral, items    *)
(* the elements in order as [k, v] (k is the key of an object member, ""   *)
(* for an array element).                                                  *)
(***************************************************************************)
Numerals == {"1", "2", "3"}

Str(s) == [t |-> "str", s |-> s, items |-> <<>>]
Num(n) == [t |-> "num", s |-> n, items |-> <<>>]
Arr(vs) == [t |-> "arr", s |-> "", items |-> [j \in DOMAIN vs |-> [k |-> "", v |-> vs[j]]]]
Obj(ms) == [t |-> "obj", s |-> "", items |-> ms]
NoValue == [t |-> "none", s |-> "", items |-> <<>>]

\* The line break and indentation json.dumps writes before an item of nesting
\* depth `level` when indent is given.
Spaces(n) == [j \in 1..n |-> " "]
NewLine(indent, level) == <<"\n">> \o Spaces(indent * level)

\* json.dumps(value, indent=indent), at nesting depth level.
RECURSIVE dumps_level(_, _, _)
RECURSIVE dumps_items(_, _, _, _, _)
dumps_items(items, j, is_obj, indent, level) ==
    IF j > Len(items) THEN <<>>
    ELSE NewLine(indent, level)
         \o (IF is_obj THEN <<"\"", items[j].k, "\"", ":", " ">> ELSE <<>>)
         \o dumps_level(items[j].v, indent, level)
         \o (IF j < Len(items) THEN <<",">> ELSE <<>>)
         \o dumps_items(items, j + 1, is_obj, indent, level)

dumps_level(value, indent, level) ==
    CASE value.t = "str" -> <<"\"", value.s, "\"">>
      [] value.t = "num" -> <<value.s>>
      [] value.t \in {"arr", "obj"} ->
            LET open == IF value.t = "obj" THEN "{" ELSE "["
                close == IF value.t = "obj" THEN "}" ELSE "]"
            IN  IF Len(value.items) = 0 THEN <<open, close>>
                ELSE <<open>>
                     \o dumps_items(value.items, 1, value.t = "obj", indent, level + 1)
                     \o NewLine(indent, level) \o <<close>>

dumps(value, indent) == dumps_level(value, indent, 0)

\* The position of the first token at or after j that is not white space.
RECURSIVE SkipSpace(_, _)
SkipSpace(text, j) ==
    IF j <= Len(text) /\ text[j] \in {" ", "\n"} THEN SkipSpace(text, j + 1) ELSE j

\* The json parser: the value that starts at token j and the position after
\* it, or ok = FALSE (JSONDecodeError).
ParseFailure == [ok |-> FALSE, value |-> NoValue, next |-> 0]

\* d[key] = value on a dict: a key met again keeps its place and takes the
\* new value.
PutMember(items, key, value) ==
    IF \E j \in DOMAIN items : items[j].k = key
    THEN [j \in DOMAIN items |->
            IF items[j].k = key THEN [k |-> key, v |-> value] ELSE items[j]]
    ELSE Append(items, [k |-> key, v |-> value])

RECURSIVE ParseValue(_, _)
RECURSIVE ParseItems(_, _, _, _)
ParseItems(text, j, is_obj, acc) ==
    LET j1 == SkipSpace(text, j)
        has_key == /\ j1 + 3 <= Len(text) /\ text[j1] = "\"" /\ text[j1 + 2] = "\""
                   /\ SkipSpace(text, j1 + 3) <= Len(text)
                   /\ text[SkipSpace(text, j1 + 3)] = ":"
        key == IF is_obj THEN text[j1 + 1] ELSE ""
        v == ParseValue(text, IF is_obj THEN SkipSpace(text, j1 + 3) + 1 ELSE j1)
        j2 == SkipSpace(text, v.next)
        close == IF is_obj THEN "}" ELSE "]"
        items == IF is_obj THEN PutMember(acc, key, v.value)
                 ELSE Append(acc, [k |-> "", v |-> v.value])
    IN  IF is_obj /\ ~has_key THEN ParseFailure
        ELSE IF ~v.ok \/ j2 > Len(text) THEN ParseFailure
        ELSE IF text[j2] = "," THEN ParseItems(text, j2 + 1, is_obj, items)
        ELSE IF text[j2] = close
        THEN [ok |-> TRUE, next |-> j2 + 1,
              value |-> [t |-> IF is_obj THEN "obj" ELSE "arr", s |-> "",
                         items |-> items]]
        ELSE ParseFailure

ParseValue(text, j) ==
    LET j1 == SkipSpace(text, j)
        tok == text[j1]
        is_obj == tok = "{"
        j2 == SkipSpace(text, j1 + 1)
    IN  IF j1 > Len(text) THEN ParseFailure
        ELSE IF tok = "\""
        THEN IF j1 + 2 <= Len(text) /\ text[j1 + 2] = "\""
             THEN [ok |-> TRUE, value |-> Str(text[j1 + 1]), next |-> j1 + 3]
             ELSE ParseFailure
        ELSE IF tok \in Numerals
        THEN [ok |-> TRUE, value |-> Num(tok), next |-> j1 + 1]
        ELSE IF tok \in {"{", "["}
        THEN IF j2 <= Len(text) /\ text[j2] = (IF is_obj THEN "}" ELSE "]")
             THEN [ok |-> TRUE, next |-> j2 + 1,
                   value |-> IF is_obj THEN Obj(<<>>) ELSE Arr(<<>>)]
             ELSE ParseItems(text, j1 + 1, is_obj, <<>>)
        ELSE ParseFailure

\* json.load / json.loads of a whole text: one value and nothing after it.
loads(text) ==
    LET v == ParseValue(text, 1)
    IN  IF v.ok /\ SkipSpace(text, v.next) = Len(text) + 1
        THEN [ok |-> TRUE, value |-> v.value]
        ELSE [ok |-> FALSE, value |-> NoValue]

(***************************************************************************)
(* CompilerSpec: backend/api/ai_service.py, json_to_str and create_example.*)
(* A file is missing, unreadable (open or read raises something else), or  *)
(* holds a text.  The texts are the fixtures of backend/api/tests.py and a *)
(* document that names a file.                                             *)
(***************************************************************************)
MaxFiles == 3

Paths == {"data1.json", "data2.json", "bad.json"}

\* {"key1": "value1"} and {"key2": [1, 2, 3]} as json.dump wrote them.
Data1Text == <<"{", "\"", "key1", "\"", ":", " ", "\"", "value1", "\"", "}">>
Data2Text ==
    <<"{", "\"", "key2", "\"", ":", " ", "[", "1", ",", " ", "2", ",", " ", "3",
      "]", "}">>
\* {"source": "data1.json"}
SourceText == <<"{", "\"", "source", "\"", ":", " ", "\"", "data1.json", "\"", "}">>
\* "invalid json"
InvalidText == <<"invalid", " ", "json">>

FileStates ==
    {[kind |-> "missing", text |-> <<>>], [kind |-> "unreadable", text |-> <<>>]}
        \cup {[kind |-> "text", text |-> t] :
                t \in {Data1Text, Data2Text, SourceText, InvalidText}}

\* The block without its closing separator line.
BlockUnterminated(file, data) == <<file, ":", "\n">> \o dumps(data, 2) \o <<"\n">>
\* f"{file}:\n{json.dumps(data,indent=2)}\n--\n"
Block(file, data) == <<file, ":", "\n">> \o dumps(data, 2) \o <<"\n", "--", "\n">>

\* The loop body that writes a diagnostic line for a file it could not read.
JsonToStrPlaceholder(result, file, files) ==
    LET f == files[file]
        data == loads(f.text)
    IN  IF f.kind = "text" /\ data.ok
        THEN result \o Block(file, data.value)
        ELSE result \o <<"[ERROR in json_to_str]", file, "\n">>
\* The loop body that puts the new block in front of the text built so far.
JsonToStrPrepend(result, file, files) ==
    LET f == files[file]
        data == loads(f.text)
    IN  IF f.kind = "text" /\ data.ok
        THEN Block(file, data.value) \o result
        ELSE result
\* The body of `for file in filepaths`: open and json.load inside try; each
\* except clause evaluates a string and drops it, so a failing file leaves
\* result as it was.
JsonToStrBody(result, file, files) ==
    LET f == files[file]
        data == loads(f.text)
    IN  IF f.kind = "missing" THEN result          \* except FileNotFoundError
        ELSE IF f.kind = "unreadable" THEN result  \* except Exception
        ELSE IF ~data.ok THEN result               \* except json.JSONDecodeError
        ELSE result \o Block(file, data.value)

\* json_to_str(filepaths): result = '' and the loop over the list.
RECURSIVE JsonToStrFrom(_, _, _)
JsonToStrFrom(result, filepaths, files) ==
    IF filepaths = <<>> THEN result
    ELSE JsonToStrFrom(JsonToStrBody(result, Head(filepaths), files),
                       Tail(filepaths), files)

json_to_str(filepaths, files) == JsonToStrFrom(<<>>, filepaths, files)

\* create_example that joins the non-empty parts with line breaks.
create_example_joined(example_prompt, example_data, example_result) ==
    <<"Example:", "\n">> \o example_prompt
        \o (IF example_prompt = <<>> THEN <<>> ELSE <<"\n">>)
        \o example_data \o example_result
\* create_example(example_prompt, example_data, example_result)
create_example(example_prompt, example_data, example_result) ==
    <<"Example:", "\n">> \o example_prompt \o <<"\n">> \o example_data \o example_result

ExamplePrompts == {<<>>, <<"Create a security report.">>}
ExampleResults == {<<>>, <<"Report Content">>}

\* json_to_str is called with a list of at most MaxFiles paths.
CompilerInit ==
    /\ \E files \in [Paths -> FileStates],
          filepaths \in UNION {[1..n -> Paths] : n \in 0..MaxFiles} :
          cc = [pc |-> "loop", files |-> files, filepaths |-> filepaths, k |-> 1,
                result |-> <<>>, raised |-> FALSE, example_prompt |-> <<>>,
                example_result |-> <<>>, example |-> <<>>]
    /\ gc = IdleClient
    /\ script = <<>>
    /\ inv = [i \in Tasks |-> IdleInvocation]
    /\ db = InitialDb
    /\ web = IdleWeb
    /\ vc = IdleCommand
    /\ rt = IdleRoundTrip

\* One pass of the loop of json_to_str.
JsonToStrLoop ==
    /\ cc.pc = "loop"
    /\ cc.k <= Len(cc.filepaths)
    /\ cc' = [cc EXCEPT !.k = @ + 1,
                        !.result = JsonToStrBody(@, cc.filepaths[cc.k], cc.files)]
    /\ UNCHANGED <<gc, script, inv, db, web, rt, vc>>

\* return result
JsonToStrReturn ==
    /\ cc.pc = "loop"
    /\ cc.k > Len(cc.filepaths)
    /\ cc' = [cc EXCEPT !.pc = "returned"]
    /\ UNCHANGED <<gc, script, inv, db, web, rt, vc>>

\* create_example called with the compiled text as example_data.
CreateExample ==
    /\ cc.pc = "returned"
    /\ \E p \in ExamplePrompts, r \in ExampleResults :
          cc' = [cc EXCEPT !.pc = "example", !.example_prompt = p,
                           !.example_result = r,
                           !.example = create_example(p, cc.result, r)]
    /\ UNCHANGED <<gc, script, inv, db, web, rt, vc>>

CompilerNext == JsonToStrLoop \/ JsonToStrReturn \/ CreateExample

CompilerSpec == CompilerInit /\ [][CompilerNext]_vars

(***************************************************************************)
(* Properties of json_to_str and create_example, under CompilerSpec.       *)
(***************************************************************************)
\* json_to_str has returned.
JsonToStrEnded == cc.pc \in {"returned", "example"}

\* The file opens and its text is JSON.
ReadsOk(file) == cc.files[file].kind = "text" /\ loads(cc.files[file].text).ok

\* The listed paths whose documents were read, in the order of the list.
ReadPaths == SelectSeq(cc.filepaths, ReadsOk)

\* How often the token occurs in the text.
Occurrences(text, tok) == Cardinality({j \in DOMAIN text : text[j] = tok})

\* Token j opens a block: a path followed by ":" at the start of the text or
\* right after a separator line.
IsHeader(text, j) ==
    /\ text[j] \in Paths
    /\ j + 1 <= Len(text) /\ text[j + 1] = ":"
    /\ j = 1 \/ (j >= 3 /\ text[j - 1] = "\n" /\ text[j - 2] = "--")

\* The identifiers of the blocks of the text, in order.
Headers(text) ==
    LET H == {j \in DOMAIN text : IsHeader(text, j)}
    IN  [n \in 1..Cardinality(H) |->
            text[CHOOSE j \in H : Cardinality({i \in H : i < j}) = n - 1]]

C14_FailingDocumentsAreOmitted ==
    JsonToStrEnded =>
        /\ ~cc.raised
        /\ cc.result = json_to_str(ReadPaths, cc.files)
        /\ ReadPaths = <<>> => cc.result = <<>>

\* A list with a missing file, a good one and a file that is no JSON.
C14_Witness ==
    /\ JsonToStrEnded
    /\ Len(cc.filepaths) = 3
    /\ cc.files[cc.filepaths[1]].kind = "missing"
    /\ cc.files[cc.filepaths[2]].text = Data2Text
    /\ cc.files[cc.filepaths[3]].text = InvalidText
    /\ cc.result = Block(cc.filepaths[2], loads(Data2Text).value)

\* The text the first test of backend/api/tests.py expects.
ExpectedOutput ==
    <<"data1.json", ":", "\n",
      "{", "\n",
      " ", " ", "\"", "key1", "\"", ":", " ", "\"", "value1", "\"", "\n",
      "}", "\n", "--", "\n",
      "data2.json", ":", "\n",
      "{", "\n",
      " ", " ", "\"", "key2", "\"", ":", " ", "[", "\n",
      " ", " ", " ", " ", "1", ",", "\n",
      " ", " ", " ", " ", "2", ",", "\n",
      " ", " ", " ", " ", "3", "\n",
      " ", " ", "]", "\n",
      "}", "\n", "--", "\n">>

\* path + ":\n" + the document with indent 2 + "\n--\n", for the paths from j on.
RECURSIVE BlocksFrom(_)
BlocksFrom(filepaths) ==
    IF filepaths = <<>> THEN <<>>
    ELSE <<Head(filepaths), ":", "\n">>
         \o dumps(loads(cc.files[Head(filepaths)].text).value, 2)
         \o <<"\n", "--", "\n">>
         \o BlocksFrom(Tail(filepaths))

\* C15: when every listed document is read, the result is the concatenation,
\* in input order, of path + ":\n" + document (indent 2) + "\n--\n"; for the
\* two files of the test it is the text the test expects.
C15_ConcatenationOfBlocks ==
    (JsonToStrEnded /\ \A j \in DOMAIN cc.filepaths : ReadsOk(cc.filepaths[j])) =>
        /\ cc.result = BlocksFrom(cc.filepaths)
        /\ ( /\ cc.filepaths = <<"data1.json", "data2.json">>
             /\ cc.files["data1.json"].text = Data1Text
             /\ cc.files["data2.json"].text = Data2Text )
           => cc.result = ExpectedOutput

\* The two files of the test were compiled.
C15_Witness ==
    /\ JsonToStrEnded
    /\ cc.filepaths = <<"data1.json", "data2.json">>
    /\ cc.files["data1.json"].text = Data1Text
    /\ cc.files["data2.json"].text = Data2Text
    /\ cc.result = ExpectedOutput

\* C16: create_example returns "Example:\n" + prompt + "\n" + data + result:
\* it starts with the marker, and for three empty strings it is "Example:\n\n".
C16_ExampleIsMarkerThenParts ==
    cc.pc = "example" =>
        /\ cc.example = <<"Example:", "\n">> \o cc.example_prompt \o <<"\n">>
                            \o cc.result \o cc.example_result
        /\ SubSeq(cc.example, 1, 2) = <<"Example:", "\n">>
        /\ ( cc.example_prompt = <<>> /\ cc.result = <<>> /\ cc.example_result = <<>> )
           => cc.example = <<"Example:", "\n", "\n">>

\* create_example was called with three empty strings.
C16_Witness ==
    /\ cc.pc = "example"
    /\ cc.example_prompt = <<>> /\ cc.result = <<>> /\ cc.example_result = <<>>
    /\ cc.example = <<"Example:", "\n", "\n">>

(***************************************************************************)
(* RoundTripSpec: the text the report stage returned is parsed (line 379), *)
(* stored in Report.report_text (lines 388-394), read back and serialized  *)
(* by report_service.get_report_file_content, and parsed by the reader.    *)
(***************************************************************************)
MaxItems == 2

\* json.dumps(value) without indent: ", " between items, ": " after a key.
RECURSIVE dumps_compact(_)
RECURSIVE dumps_compact_items(_, _, _)
dumps_compact_items(items, j, is_obj) ==
    IF j > Len(items) THEN <<>>
    ELSE (IF is_obj THEN <<"\"", items[j].k, "\"", ":", " ">> ELSE <<>>)
         \o dumps_compact(items[j].v)
         \o (IF j < Len(items) THEN <<",", " ">> ELSE <<>>)
         \o dumps_compact_items(items, j + 1, is_obj)

dumps_compact(value) ==
    CASE value.t = "str" -> <<"\"", value.s, "\"">>
      [] value.t = "num" -> <<value.s>>
      [] value.t = "obj" ->
            <<"{">> \o dumps_compact_items(value.items, 1, TRUE) \o <<"}">>
      [] value.t = "arr" ->
            <<"[">> \o dumps_compact_items(value.items, 1, FALSE) \o <<"]">>

\* The payloads a report text may hold: scalars, lists of up to MaxItems
\* scalars, objects, and each of them under the key "report".
Scalars == {Str("\\section{Summary}"), Num("1")}
Inner ==
    Scalars
        \cup {Arr(l) : l \in UNION {[1..n -> Scalars] : n \in 0..MaxItems}}
        \cup {Obj(<<>>)}
        \cup {Obj(<<[k |-> "title", v |-> s]>>) : s \in Scalars}
Payloads ==
    Inner
        \cup {Obj(<<[k |-> "report", v |-> v]>>) : v \in Inner}
        \cup {Obj(<<[k |-> "report", v |-> v], [k |-> "title", v |-> s]>>) :
                v \in Inner, s \in Scalars}

\* {"report": 1, "title": 2, "report": 3}: a key met twice.
DuplicateKeyText ==
    <<"{", "\"", "report", "\"", ":", "1", ",", "\"", "title", "\"", ":", "2", ",",
      "\"", "report", "\"", ":", "3", "}">>

\* The texts the report stage returns: each parses (the client checked it).
ReportTexts ==
    {dumps_compact(v) : v \in Payloads} \cup {dumps(v, 2) : v \in Payloads}
        \cup {DuplicateKeyText}

\* The JSONField column: the value is serialized on the way in and parsed on
\* the way out.
JSONFieldStored(value) == loads(dumps_compact(value)).value

\* get_report_file_content with str() in the place of json.dumps: the quotes
\* of Python's repr.
FileContentRepr(report_text) ==
    LET text == dumps_compact(report_text)
    IN  [j \in DOMAIN text |-> IF text[j] = "\"" THEN "'" ELSE text[j]]
\* json.dumps(report.report_text, indent=4)
FileContent(report_text) == dumps(report_text, 4)

NoRoundTrip ==
    [pc |-> "returned", text |-> <<>>, report_data |-> NoValue,
     report_text |-> NoValue, stored |-> FALSE, content |-> <<>>,
     found |-> FALSE, reparsed |-> NoValue, reparsed_ok |-> FALSE]

\* The report stage has returned a text.
RoundTripInit ==
    /\ \E t \in ReportTexts : rt = [NoRoundTrip EXCEPT !.text = t]
    /\ gc = IdleClient
    /\ script = <<>>
    /\ inv = [i \in Tasks |-> IdleInvocation]
    /\ db = InitialDb
    /\ cc = IdleCompiler
    /\ web = IdleWeb
    /\ vc = IdleCommand

\* report_data = json.loads(report_json_str)
ParseReport ==
    /\ rt.pc = "returned"
    /\ rt' = [rt EXCEPT !.pc = "parsed", !.report_data = loads(rt.text).value]
    /\ UNCHANGED <<gc, script, inv, db, cc, web, vc>>

\* Report.objects.create(..., report_text=report_data, ...) and the commit,
\* or an exception that rolls the Report back.
StoreReport ==
    /\ rt.pc = "parsed"
    /\ \E committed \in BOOLEAN :
          rt' = [rt EXCEPT !.pc = "saved", !.stored = committed,
                           !.report_text = IF committed
                                           THEN JSONFieldStored(rt.report_data)
                                           ELSE NoValue]
    /\ UNCHANGED <<gc, script, inv, db, cc, web, vc>>

\* get_report_file_content(report_id): the serialized payload, or None when
\* there is no such Report.
GetReportFileContent ==
    /\ rt.pc = "saved"
    /\ rt' = IF rt.stored
             THEN [rt EXCEPT !.pc = "read", !.found = TRUE,
                             !.content = FileContent(rt.report_text)]
             ELSE [rt EXCEPT !.pc = "read", !.found = FALSE]
    /\ UNCHANGED <<gc, script, inv, db, cc, web, vc>>

\* The reader parses the content it was given.
ParseContent ==
    /\ rt.pc = "read"
    /\ rt.found
    /\ rt' = [rt EXCEPT !.pc = "reparsed",
                        !.reparsed = loads(rt.content).value,
                        !.reparsed_ok = loads(rt.content).ok]
    /\ UNCHANGED <<gc, script, inv, db, cc, web, vc>>

RoundTripNext == ParseReport \/ StoreReport \/ GetReportFileContent \/ ParseContent

RoundTripSpec == RoundTripInit /\ [][RoundTripNext]_vars

\* Same keys and same nested value types: the two values have the same type,
\* lists the same length with items alike in order, objects the same keys
\* with values alike key by key.
RECURSIVE SameStructure(_, _)
SameStructure(a, b) ==
    /\ a.t = b.t
    /\ Len(a.items) = Len(b.items)
    /\ \A i \in DOMAIN a.items :
          IF a.t = "obj"
          THEN \E j \in DOMAIN b.items :
                  /\ a.items[i].k = b.items[j].k
                  /\ SameStructure(a.items[i].v, b.items[j].v)
          ELSE SameStructure(a.items[i].v, b.items[i].v)

\* C20: the payload stored on the Report, serialized by
\* get_report_file_content and parsed again, has the same keys and the same
\* nested value types as json.loads of the text the report stage returned.
C20_StoredPayloadRoundTrips ==
    rt.pc = "reparsed" =>
        /\ rt.reparsed_ok
        /\ SameStructure(rt.reparsed, loads(rt.text).value)
        /\ SameStructure(loads(rt.text).value, rt.reparsed)

\* A nested payload with strings made the round trip.
C20_Witness ==
    /\ rt.pc = "reparsed"
    /\ rt.report_data =
          Obj(<<[k |-> "report", v |-> Arr(<<Str("\\section{Summary}"), Num("1")>>)],
                [k |-> "title", v |-> Str("\\section{Summary}")]>>)
    /\ rt.reparsed = rt.report_data
    /\ rt.content # rt.text

(***************************************************************************)
(* StoreSpec: everything that writes Report and Risk rows.  The REST       *)
(* viewsets (views.py, serializers.py) serve up to MaxRequests requests of *)
(* authenticated users; report_service.create_report and the seeding       *)
(* command are called; task 1 runs a pipeline invocation.  A request body  *)
(* may carry every field its serializer leaves writable.                   *)
(***************************************************************************)
MaxRequests == 2

\* One more request was served: to the authenticated user u (request.user),
\* with this status and these rows in the response.
Responded(u, outcome, rows) ==
    web' = [n |-> web.n + 1, last |-> outcome, user |-> u, rows |-> rows]

\* One more call of a service function or of a command ended, with this outcome.
Served(outcome) == Responded("none", outcome, {})

\* The permissions granted to each user; can_resolve_risk is declared in
\* Risk.Meta.permissions.
UserPermissions(u) ==
    CASE u = "user1" -> {"can_resolve_risk"}
      [] OTHER -> {}

\* get_queryset without the filter: Report.objects.all().
ReportQuerysetAll(u) == db.reports

\* get_queryset: the Reports of the organization of request.user; for a user
\* without organization the filter is `organization IS NULL`.
ReportQueryset(u) == {r \in db.reports : r.organization = UserOrganization(u)}

\* on_delete=models.CASCADE from Risk.report: the Risks go with their Reports.
DeleteReports(d, gone) ==
    [d EXCEPT !.reports = @ \ gone,
              !.risks = {k \in @ : \A r \in gone : k.report # r.report_id}]

\* on_delete=models.CASCADE from Report.user_created: the Reports a user
\* created go with the user, and their Risks with them.
DeleteUsers(d, gone) ==
    DeleteReports([d EXCEPT !.users = @ \ gone],
                  {r \in d.reports : r.user_created \in gone})

\* DeleteOrganizations that removes the Organization rows only.
DeleteOrganizationsNoCascade(d, gone) ==
    [d EXCEPT !.organizations = @ \ gone]

\* on_delete=models.CASCADE from User.organization, Report.organization and
\* Risk.organization: users, Reports and Risks go with their Organization.
DeleteOrganizations(d, gone) ==
    LET members == {u \in d.users : UserOrganization(u) \in gone}
        d1 == DeleteUsers([d EXCEPT !.organizations = @ \ gone], members)
        d2 == DeleteReports(d1, {r \in d1.reports : r.organization \in gone})
    IN  [d2 EXCEPT !.risks = {k \in @ : k.organization \notin gone}]

\* POST /reports/: perform_create saves with user_created = request.user and
\* organization = request.user.organization; completed comes from the body.
\* Report.organization is not nullable: a user without organization gets an
\* IntegrityError.
ReportViewSetCreate ==
    /\ web.n < MaxRequests
    /\ \E u \in db.users, c \in {"null", "now"} :
          IF UserOrganization(u) = "null"
          THEN /\ Responded(u, "IntegrityError", {})
               /\ UNCHANGED db
          ELSE /\ Responded(u, "201", {})
               /\ db' = [db EXCEPT !.reports = @ \cup
                            {[report_id |-> 11 + web.n, user_created |-> u,
                              organization |-> UserOrganization(u),
                              report_text |-> ReportDoc, completed |-> c]}]
    /\ UNCHANGED <<gc, script, inv, cc, rt, vc>>

\* PUT /reports/<id>/: ModelViewSet.update on a Report of the queryset; the
\* serializer writes organization, user_created and, when given, completed.
ReportViewSetUpdate ==
    /\ web.n < MaxRequests
    /\ \E u \in db.users :
          \E r \in ReportQueryset(u), org \in db.organizations, usr \in db.users,
             c \in {"null", "now", "absent"} :
             /\ db' = [db EXCEPT !.reports = (@ \ {r}) \cup
                          {[r EXCEPT !.organization = org, !.user_created = usr,
                                     !.completed = IF c = "absent" THEN @ ELSE c]}]
             /\ Responded(u, "200", {})
    /\ UNCHANGED <<gc, script, inv, cc, rt, vc>>

\* PATCH /reports/<id>/: ModelViewSet.partial_update with one field.
ReportViewSetPartialUpdate ==
    /\ web.n < MaxRequests
    /\ \E u \in db.users :
          \E r \in ReportQueryset(u) :
             /\ \/ \E c \in {"null", "now"} :
                      db' = [db EXCEPT !.reports =
                                (@ \ {r}) \cup {[r EXCEPT !.completed = c]}]
                \/ \E org \in db.organizations :
                      db' = [db EXCEPT !.reports =
                                (@ \ {r}) \cup {[r EXCEPT !.organization = org]}]
             /\ Responded(u, "200", {})
    /\ UNCHANGED <<gc, script, inv, cc, rt, vc>>

\* DELETE /reports/<id>/
ReportViewSetDestroy ==
    /\ web.n < MaxRequests
    /\ \E u \in db.users :
          \E r \in ReportQueryset(u) :
             /\ db' = DeleteReports(db, {r})
             /\ Responded(u, "204", {})
    /\ UNCHANGED <<gc, script, inv, cc, rt, vc>>

\* GET /reports/: the rows of the queryset.
ReportViewSetList ==
    /\ web.n < MaxRequests
    /\ \E u \in db.users : Responded(u, "200", ReportQueryset(u))
    /\ UNCHANGED <<gc, script, inv, db, cc, rt, vc>>

\* GET /reports/<id>/: get_object looks the id up in the queryset, 404 when
\* it is not there.
ReportViewSetRetrieve ==
    /\ web.n < MaxRequests
    /\ \E u \in db.users, r \in db.reports :
          IF r \in ReportQueryset(u)
          THEN Responded(u, "200", {r})
          ELSE Responded(u, "404", {})
    /\ UNCHANGED <<gc, script, inv, db, cc, rt, vc>>

\* POST /risks/: RiskSerializer writes every field of the body, report and
\* organization among them; the queryset is Risk.objects.all().
RiskViewSetCreate ==
    /\ web.n < MaxRequests
    /\ db.users # {}
    /\ \E r \in db.reports, org \in db.organizations :
          db' = [db EXCEPT !.risks = @ \cup
                    {[risk_id |-> <<0, web.n + 1>>, risk_name |-> "Open RDP Port",
                      report |-> r.report_id, organization |-> org,
                      severity |-> "High", is_archived |-> FALSE]}]
    /\ Served("201")
    /\ UNCHANGED <<gc, script, inv, cc, rt, vc>>

\* PUT or PATCH /risks/<id>/ on any Risk.
RiskViewSetUpdate ==
    /\ web.n < MaxRequests
    /\ \E u \in db.users, k \in db.risks, r \in db.reports,
          org \in db.organizations, archived \in BOOLEAN :
          /\ db' = [db EXCEPT !.risks = (@ \ {k}) \cup
                       {[k EXCEPT !.report = r.report_id, !.organization = org,
                                  !.is_archived = archived]}]
          /\ Responded(u, "200", {})
    /\ UNCHANGED <<gc, script, inv, cc, rt, vc>>

\* DELETE /organizations/<id>/ by any authenticated user: the queryset is
\* Organization.objects.all().
OrganizationViewSetDestroy ==
    /\ web.n < MaxRequests
    /\ db.users # {}
    /\ \E org \in db.organizations : db' = DeleteOrganizations(db, {org})
    /\ Served("204")
    /\ UNCHANGED <<gc, script, inv, cc, rt, vc>>

\* DELETE /users/<id>/ by any authenticated user: the queryset is
\* User.objects.all().
UserViewSetDestroy ==
    /\ web.n < MaxRequests
    /\ \E target \in db.users : db' = DeleteUsers(db, {target})
    /\ Served("204")
    /\ UNCHANGED <<gc, script, inv, cc, rt, vc>>

\* The report_id a caller may pass: the UUID of a Report of the pipeline or
\* of the viewset, a UUID no Report has, or a str that is no UUID.
ReportIdArguments ==
    {[uuid |-> TRUE, id |-> n] : n \in {1, 11, 99}}
        \cup {[uuid |-> FALSE, id |-> 0]}

\* Report.objects.get(pk=report_id): the row, DoesNotExist, or the
\* ValidationError of UUIDField for a value that is no UUID.
GetReport(d, report_id) ==
    LET found == {r \in d.reports : r.report_id = report_id.id}
    IN  IF ~report_id.uuid THEN [outcome |-> "ValidationError", rows |-> {}]
        ELSE IF found = {} THEN [outcome |-> "DoesNotExist", rows |-> {}]
        ELSE [outcome |-> "row", rows |-> found]

\* get_report_by_id(report_id): the Report, None on ObjectDoesNotExist; any
\* other exception leaves the function.
get_report_by_id(report_id) ==
    /\ web.n < MaxRequests
    /\ LET got == GetReport(db, report_id)
       IN  CASE got.outcome = "row" -> Responded("none", "Report", got.rows)
             [] got.outcome = "DoesNotExist" -> Served("None")
             [] OTHER -> Served(got.outcome)
    /\ UNCHANGED <<gc, script, inv, db, cc, rt, vc>>

\* get_report_file_content(report_id): json.dumps(report.report_text,
\* indent=4), None when report_text is None or on ObjectDoesNotExist.
get_report_file_content(report_id) ==
    /\ web.n < MaxRequests
    /\ LET got == GetReport(db, report_id)
       IN  CASE got.outcome = "row" ->
                  \E r \in got.rows :
                     IF r.report_text = NoDoc
                     THEN Served("None")
                     ELSE Responded("none", "content", {JsonText(r.report_text)})
             [] got.outcome = "DoesNotExist" -> Served("None")
             [] OTHER -> Served(got.outcome)
    /\ UNCHANGED <<gc, script, inv, db, cc, rt, vc>>

\* create_report with the keyword arguments Report has: the row is stored.
ServiceCreateReportStores ==
    /\ web.n < MaxRequests
    /\ \E u \in db.users, org \in db.organizations :
          db' = [db EXCEPT !.reports = @ \cup
                    {[report_id |-> 11 + web.n, user_created |-> u,
                      organization |-> org, report_text |-> NoDoc,
                      completed |-> "null"]}]
    /\ Served("stored")
    /\ UNCHANGED <<gc, script, inv, cc, rt, vc>>

\* report_service.create_report passes date_created=..., which is no field of
\* Report: Report.objects.create raises TypeError and nothing is stored.
ServiceCreateReport ==
    /\ web.n < MaxRequests
    /\ Served("TypeError")
    /\ UNCHANGED <<gc, script, inv, db, cc, rt, vc>>

\* manage.py populate_data: every Risk, Report, User and Organization is
\* deleted, organizations and their users are created, and the first
\* Report.objects.create of create_reports raises TypeError on is_checked=...,
\* so the command ends there with no Report and no Risk.
PopulateData ==
    /\ web.n < MaxRequests
    /\ db' = [organizations |-> {"seed_org"}, users |-> {"seed_user"},
              reports |-> {}, risks |-> {}]
    /\ Served("TypeError")
    /\ UNCHANGED <<gc, script, inv, cc, rt, vc>>

\* A step of the pipeline invocation of task 1.
PipelineStep ==
    \/ Invoke(1) \/ ReportOpen(1) \/ ReportAttempt(1) \/ LookupOrganization(1)
    \/ LookupUser(1) \/ CreateReport(1) \/ RiskOpen(1) \/ RiskAttempt(1)
    \/ InsertRisk(1) \/ ReturnTrue(1)

StoreNext ==
    \/ ReportViewSetCreate
    \/ ReportViewSetUpdate
    \/ ReportViewSetPartialUpdate
    \/ ReportViewSetDestroy
    \/ RiskViewSetCreate
    \/ RiskViewSetUpdate
    \/ OrganizationViewSetDestroy
    \/ UserViewSetDestroy
    \/ ServiceCreateReport
    \/ PopulateData
    \/ PipelineStep

StoreSpec == Init /\ [][StoreNext]_vars

(***************************************************************************)
(* Properties of the store, under StoreSpec.                               *)
(***************************************************************************)
\* C17: a Report whose completed is set keeps it set in every later state in
\* which the Report exists.
C17_CompletedIsNeverCleared ==
    [][\A r \in db.reports :
          r.completed # "null" =>
              \A q \in db.reports' :
                  q.report_id = r.report_id => q.completed # "null"]_vars

\* C18: the organization of every Risk is the organization of the Report the
\* Risk is linked to.
C18_RiskOrganizationIsReportsOrganization ==
    \A k \in db.risks :
        \A r \in db.reports :
            r.report_id = k.report => k.organization = r.organization

C22_ExistingRisksAsOfStart ==
    [][\A i \in Tasks :
          inv[i].pc # "idle" => inv'[i].current_risks = inv[i].current_risks]_vars

\* Two invocations for the same organization, started with the same
\* existing-risk set, have both committed a Risk of the same name.
C22_Witness ==
    /\ inv[1].result = "True" /\ inv[2].result = "True"
    /\ inv[1].org = inv[2].org
    /\ inv[1].current_risks = inv[2].current_risks
    /\ \E r \in RisksOf(1), q \in RisksOf(2) :
          /\ r.risk_name = q.risk_name
          /\ r.organization = q.organization
          /\ r.risk_id # q.risk_id

\* The failed attempts of the client so far: its calls, less the one that
\* returned a text.
FailedAttempts(c) ==
    c.calls - (IF c.status = "returned" /\ Truthy(c.ret) THEN 1 ELSE 0)

\* C23: in the retry loop every failed attempt, whatever its class, advances
\* retry_count by exactly one, so the counter equals the number of failed
\* generation calls.
C23_CounterCountsEachFailureOnce ==
    gc.status \in {"loop", "returned", "raised"} =>
        gc.retry_count = FailedAttempts(gc)

C25_OnePausePerFailedAttempt ==
    gc.status \in {"loop", "returned", "raised"} =>
        /\ gc.sleeps = FailedAttempts(gc)
        /\ gc.exc # "AttributeError"

\* The rows of invocation i by the identity it gave them.
RiskRowsOf(i) == {k \in db.risks : k.risk_id[1] = i}

\* C26: when an invocation succeeds with n entries under "vulnerabilities",
\* one Report and n Risks of it are committed, each Risk linked to that Report
\* and to the Report's Organization, and unarchived.
C26_OneReportAndNRisks ==
    \A i \in Tasks :
        inv[i].result = "True" =>
            /\ Cardinality(ReportsOf(i)) = 1
            /\ Cardinality(RiskRowsOf(i)) = Len(inv[i].vulnerabilities)
            /\ \A k \in RiskRowsOf(i) :
                  /\ k.report = i
                  /\ \A r \in ReportsOf(i) : k.organization = r.organization
                  /\ ~k.is_archived

\* An invocation succeeded with a list of two risks.
C26_Witness ==
    \E i \in Tasks :
        /\ inv[i].result = "True"
        /\ Len(inv[i].vulnerabilities) = 2
        /\ Cardinality(RiskRowsOf(i)) = 2

\* C30: when the report stage fails, the invocation returns False, has made no
\* Organization and no User lookup, has not started the risk stage and has
\* written nothing.
C30_ReportFailureReturnsFalseUntouched ==
    \A i \in Tasks :
        (inv[i].pc = "done" /\ GenerationFailed(inv[i].report_client)) =>
            /\ inv[i].result = "False"
            /\ inv[i].org_lookups = 0 /\ inv[i].user_lookups = 0
            /\ inv[i].risk_client = IdleClient
            /\ inv[i].writes = 0
            /\ ReportsOf(i) = {} /\ RisksOf(i) = {}

(***************************************************************************)
(* BackendSpec: generate_report_content of backend/api/ai_service.py,      *)
(* called with every max_retries in 0..MaxRetriesBound against a scripted  *)
(* generation capability.                                                  *)
(***************************************************************************)
\* The body of generate_report_content, the capability answering o: one try
\* around one call.  A non-empty text is returned as it is; an empty text
\* prints a warning and falls through to return None; an exception is printed
\* and the handler calls time.sleep(delay) before retry_count += 1, where
\* `time` is datetime.time (line 1).  There is no loop.
generate_report_content(c, o) ==
    LET c0 == [c EXCEPT !.calls = @ + 1]
    IN  IF o.raises
        THEN IF time_sleep = "ok"
             THEN [c0 EXCEPT !.sleeps = @ + 1, !.retry_count = @ + 1,
                             !.status = "returned", !.ret = NoneText]
             ELSE [c0 EXCEPT !.sleeps = @ + 1, !.status = "raised",
                             !.exc = time_sleep]
        ELSE IF Truthy(o.text)
        THEN [c0 EXCEPT !.status = "returned", !.ret = o.text]
        ELSE [c0 EXCEPT !.status = "returned", !.ret = NoneText]

\* generate_report_content(prompt, context, example, max_retries=m) is called.
BackendInit ==
    /\ \E m \in 0..MaxRetriesBound :
          /\ gc = [NewClient("backend", m) EXCEPT !.status = "loop"]
          /\ script \in [1..MaxRetriesBound -> ScriptOutcomes("report")]
    /\ inv = [i \in Tasks |-> IdleInvocation]
    /\ db = InitialDb
    /\ cc = IdleCompiler
    /\ web = IdleWeb
    /\ vc = IdleCommand
    /\ rt = IdleRoundTrip

\* The function runs: its only generation call is answered by script[1].
BackendCall ==
    /\ gc.status = "loop"
    /\ gc' = generate_report_content(gc, script[1])
    /\ UNCHANGED <<script, inv, db, cc, web, rt, vc>>

BackendSpec == BackendInit /\ [][BackendCall]_vars

\* An answer generate_report_content is to retry on: an exception or no text.
BackendFails(o) == o.raises \/ ~Truthy(o.text)

\* C29: generate_report_content tries again after an exception or an empty
\* text, up to max_retries attempts: it returns the first answer that has a
\* text, after as many calls, and None only after max_retries failed calls.
C29_BackendHonoursMaxRetries ==
    ClientDone(gc) =>
        /\ \A k \in 1..Len(script) :
              ( /\ k <= gc.max_retries
                /\ \A j \in 1..(k - 1) : BackendFails(script[j])
                /\ ~BackendFails(script[k]) )
              => /\ gc.status = "returned"
                 /\ gc.ret = script[k].text
                 /\ gc.calls = k
        /\ (\A j \in 1..Len(script) : BackendFails(script[j]))
              => /\ gc.status = "returned"
                 /\ gc.ret = NoneText
                 /\ gc.calls = gc.max_retries

(***************************************************************************)
(* FairSpec: one pipeline invocation whose next step is always taken in    *)
(* the end: every call of the generation capability and every database     *)
(* operation returns or raises.                                            *)
(***************************************************************************)
FairSpec == Init /\ [][PipelineStep]_vars /\ WF_vars(PipelineStep)

\* C27: the invocation eventually returns True or False, each stage having
\* made at most max_retries generation calls.
C27_EventuallyReturns ==
    <>( /\ inv[1].pc = "done"
        /\ inv[1].result \in {"True", "False"}
        /\ inv[1].report_client.calls <= DefaultMaxRetries
        /\ inv[1].risk_client.calls <= DefaultMaxRetries )

\* A step of the pipeline invocation of task i.
StepOf(i) ==
    \/ Invoke(i) \/ ReportOpen(i) \/ ReportAttempt(i) \/ LookupOrganization(i)
    \/ LookupUser(i) \/ CreateReport(i) \/ RiskOpen(i) \/ RiskAttempt(i)
    \/ InsertRisk(i) \/ ReturnTrue(i)

C31_ReturnValueMatchesCommittedState ==
    \A i \in Tasks :
        /\ inv[i].result = "True" <=>
              /\ Cardinality(ReportsOf(i)) = 1
              /\ \A r \in ReportsOf(i) : r.completed # "null"
        /\ inv[i].result # "True" => ReportsOf(i) = {} /\ RiskRowsOf(i) = {}
        /\ inv[i].result = "False" =>
              /\ inv[i].pc = "done"
              /\ inv[i].tx = NoTx

\* One invocation returned True and its Report is committed; the other wrote
\* its Report and a Risk, returned False, and left nothing.
C31_Witness ==
    \E i, j \in Tasks :
        /\ inv[i].result = "True"
        /\ ReportsOf(i) # {}
        /\ inv[j].result = "False"
        /\ inv[j].writes = 2
        /\ db.reports = ReportsOf(i)
        /\ db.risks = RiskRowsOf(i)

\* Risk.SEVERITY_CHOICES: the values of the five categories.
SEVERITY_CHOICES == {"Critical", "High", "Medium", "Low", "Info"}

\* C32: the severity of every Risk row an invocation has persisted is one of
\* the five categories.
C32_PersistedSeverityIsACategory ==
    \A i \in Tasks :
        \A k \in RiskRowsOf(i) : k.severity \in SEVERITY_CHOICES

\* C33: a Risk goes from unarchived to archived only in a request of a user
\* who holds can_resolve_risk.
C33_ArchivalNeedsResolveCapability ==
    [][\A k \in db.risks :
          \A q \in db.risks' :
              (q.risk_id = k.risk_id /\ ~k.is_archived /\ q.is_archived) =>
                  "can_resolve_risk" \in UserPermissions(web'.user)]_vars

(***************************************************************************)
(* ViewSpec: the requests ReportViewSet serves and the lookups of          *)
(* report_service, over a store that pipeline invocations have filled.     *)
(***************************************************************************)
\* What a pipeline invocation that succeeded has committed: its Report, for
\* one of the organizations and created by one of the users, and one Risk.
Committed(i, user, org) ==
    [open |-> FALSE,
     reports |-> {NewReport(i, user, org, ReportDoc)},
     risks |-> {NewRisk(i, 1, CHOOSE item \in RiskItems : TRUE, org)}]

ViewInit ==
    /\ \E done \in SUBSET Tasks :
          \E user \in [done -> UserIds], org \in [done -> OrganizationIds] :
             db = [InitialDb EXCEPT
                      !.reports = UNION {Committed(i, user[i], org[i]).reports :
                                            i \in done},
                      !.risks = UNION {Committed(i, user[i], org[i]).risks :
                                          i \in done}]
    /\ gc = IdleClient
    /\ script = <<>>
    /\ inv = [i \in Tasks |-> IdleInvocation]
    /\ cc = IdleCompiler
    /\ web = IdleWeb
    /\ vc = IdleCommand
    /\ rt = IdleRoundTrip

ViewNext ==
    \/ ReportViewSetCreate
    \/ ReportViewSetUpdate
    \/ ReportViewSetPartialUpdate
    \/ ReportViewSetDestroy
    \/ ReportViewSetList
    \/ ReportViewSetRetrieve
    \/ (\E report_id \in ReportIdArguments : get_report_by_id(report_id))
    \/ (\E report_id \in ReportIdArguments : get_report_file_content(report_id))

ViewSpec == ViewInit /\ [][ViewNext]_vars

\* A request served by ReportViewSet.
ReportViewSetStep ==
    \/ ReportViewSetCreate \/ ReportViewSetUpdate \/ ReportViewSetPartialUpdate
    \/ ReportViewSetDestroy \/ ReportViewSetList \/ ReportViewSetRetrieve

\* C34: a request served by ReportViewSet returns, changes and deletes only
\* Reports of the requesting user's organization, none at all for a user
\* without organization, and a Report it creates has the requesting user as
\* user_created and that user's organization.
C34_ReportViewSetKeepsToTheUsersOrganization ==
    [][ReportViewSetStep =>
          LET u == web'.user
          IN  /\ u \in db.users
              /\ \A r \in web'.rows : r.organization = UserOrganization(u)
              /\ \A r \in db.reports \ db.reports' :
                    r.organization = UserOrganization(u)
              /\ \A q \in db.reports' :
                    (\A r \in db.reports : r.report_id # q.report_id) =>
                        /\ q.user_created = u
                        /\ q.organization = UserOrganization(u)
              /\ UserOrganization(u) = "null" =>
                    web'.rows = {} /\ db' = db]_vars

\* There are Reports of two organizations, and a user was given the list of
\* those of the user's own.
C34_Witness ==
    /\ web.user \in db.users
    /\ web.last = "200"
    /\ web.rows # {}
    /\ web.rows # db.reports
    /\ web.rows = {r \in db.reports : r.organization = UserOrganization(web.user)}

\* C36: in every state every Risk refers to an existing Report and an
\* existing Organization, every Report to an existing User and an existing
\* Organization, and every User to an existing Organization or to none; so
\* nothing that belonged to a deleted Organization or Report is left.
C36_ReferentialIntegrity ==
    /\ ForeignKeysHold(db)
    /\ \A u \in db.users : UserOrganization(u) \in db.organizations \cup {"null"}

\* An Organization that had a user, a Report and a Risk was deleted by a
\* request, and all of them went with it.
C36_Witness ==
    /\ web.last = "204"
    /\ "org1" \notin db.organizations
    /\ "user1" \notin db.users
    /\ "user2" \in db.users
    /\ inv[1].result = "True"
    /\ inv[1].org = "org1"
    /\ Len(inv[1].vulnerabilities) >= 1
    /\ db.reports = {} /\ db.risks = {}

\* C35: a lookup of report_service ends by returning, never by raising, and
\* changes nothing in the store.  get_report_by_id returns None when no Report
\* has the id and the Report otherwise; get_report_file_content returns None
\* when no Report has the id or its report_text is None, and the serialized
\* report_text otherwise.
C35_LookupsReturnNoneForAbsence ==
    [][\A report_id \in ReportIdArguments :
          LET found == {r \in db.reports : r.report_id = report_id.id}
              absent == ~report_id.uuid \/ found = {}
          IN  /\ get_report_by_id(report_id) =>
                    /\ db' = db
                    /\ absent => web'.last = "None"
                    /\ ~absent => web'.last = "Report" /\ web'.rows = found
              /\ get_report_file_content(report_id) =>
                    /\ db' = db
                    /\ absent => web'.last = "None"
                    /\ ~absent =>
                          \E r \in found :
                             IF r.report_text = NoDoc
                             THEN web'.last = "None"
                             ELSE /\ web'.last = "content"
                                  /\ web'.rows = {JsonText(r.report_text)}]_vars

(***************************************************************************)
(* CommandSpec: manage.py add_dummy_vulnerabilities.  The command module   *)
(* imports Vulnerability from api.models; models.py defines no such model, *)
(* so loading the command raises ImportError.  The specification also      *)
(* follows handle in an installation whose api.models has a Vulnerability  *)
(* model with the fields the command passes.  Rows are numbers: 1 to       *)
(* DummyCount are the listed entries, those above 100 are other rows.      *)
(***************************************************************************)
MaxOldRows == 3

\* len(dummy_vulnerabilities)
DummyCount == 12

\* The keys of every dict of dummy_vulnerabilities.
DummyKeys == {"risk_name", "severity", "overview"}

\* The Vulnerability rows that may be stored before the command runs.
RowsBefore == SUBSET ({1, 2, DummyCount} \cup {100 + n : n \in 1..MaxOldRows})

\* vuln_data[key]: the value, or KeyError.
Subscript(keys, key) == IF key \in keys THEN "value" ELSE "KeyError"

CommandInit ==
    /\ \E defined \in BOOLEAN, rows \in RowsBefore :
          vc = [pc |-> "idle", defined |-> defined, stored |-> rows, k |-> 1,
                created_lines |-> 0, success |-> FALSE, exc |-> "none"]
    /\ gc = IdleClient
    /\ script = <<>>
    /\ inv = [i \in Tasks |-> IdleInvocation]
    /\ db = InitialDb
    /\ cc = IdleCompiler
    /\ web = IdleWeb
    /\ rt = IdleRoundTrip

\* The command module is loaded: from api.models import Vulnerability.
LoadCommand ==
    /\ vc.pc = "idle"
    /\ vc' = IF vc.defined
             THEN [vc EXCEPT !.pc = "handle"]
             ELSE [vc EXCEPT !.pc = "raised", !.exc = "ImportError"]
    /\ UNCHANGED <<gc, script, inv, db, cc, web, rt>>

\* Vulnerability.objects.all().delete()
ClearExisting ==
    /\ vc.pc = "handle"
    /\ vc' = [vc EXCEPT !.pc = "loop", !.stored = {}]
    /\ UNCHANGED <<gc, script, inv, db, cc, web, rt>>

\* self.stdout.write(f'Created: {vuln_data["name"]}') after the create.
WriteCreated(c) ==
    IF Subscript(DummyKeys, "name") = "KeyError"
    THEN [c EXCEPT !.pc = "raised", !.exc = "KeyError"]
    ELSE [c EXCEPT !.k = @ + 1, !.created_lines = @ + 1]

\* One pass of `for vuln_data in dummy_vulnerabilities`:
\* Vulnerability.objects.create(**vuln_data), then the line is written; after
\* the last pass the success line.
HandleLoop ==
    /\ vc.pc = "loop"
    /\ vc' = IF vc.k > DummyCount
             THEN [vc EXCEPT !.pc = "done", !.success = TRUE]
             ELSE WriteCreated([vc EXCEPT !.stored = @ \cup {vc.k}])
    /\ UNCHANGED <<gc, script, inv, db, cc, web, rt>>

CommandNext == LoadCommand \/ ClearExisting \/ HandleLoop

CommandSpec == CommandInit /\ [][CommandNext]_vars

\* C37: when the command has ended, every row stored before is gone, exactly
\* the DummyCount listed rows are stored, a line was written for each and the
\* success line after them; the command has not raised.
C37_CommandReplacesVulnerabilities ==
    vc.pc \in {"done", "raised"} =>
        /\ vc.pc = "done"
        /\ vc.stored = 1..DummyCount
        /\ vc.created_lines = DummyCount
        /\ vc.success

====
